---------------------------- MODULE Spec2Model ----------------------------
(***************************************************************************)
(* Grammar mining (notebooks/GrammarMiner.ipynb): the tracers that record  *)
(* variable values, the two get_grammar synthesizers and the grammar       *)
(* merger.                                                                 *)
(*                                                                         *)
(* A Python string is a sequence of one-character strings, so that "in",   *)
(* str.replace, str.lower and concatenation are computed character by      *)
(* character.  A Python dict is a sequence of <<key, value>> pairs in      *)
(* insertion order with pairwise distinct keys.                            *)
(***************************************************************************)
EXTENDS Integers, Sequences, FiniteSets, TLC

(***************************************************************************)
(* Strings                                                                 *)
(***************************************************************************)

\* s[i:] for a 1-based i
Drop(s, i) == SubSeq(s, i, Len(s))

\* s.startswith(v, i-1)
MatchAt(s, i, v) ==
    /\ i + Len(v) - 1 <= Len(s)
    /\ SubSeq(s, i, i + Len(v) - 1) = v

\* the Python test "v in s" on two strings
In(v, s) == \E i \in 1..(Len(s) + 1) : MatchAt(s, i, v)

RECURSIVE ReplaceFrom(_, _, _, _)
ReplaceFrom(s, i, old, new) ==
    IF i > Len(s) THEN <<>>
    ELSE IF MatchAt(s, i, old)
         THEN new \o ReplaceFrom(s, i + Len(old), old, new)
         ELSE <<s[i]>> \o ReplaceFrom(s, i + 1, old, new)

RECURSIVE Interleave(_, _)
Interleave(s, new) ==
    IF s = <<>> THEN new ELSE new \o <<s[1]>> \o Interleave(Tail(s), new)

\* s.replace(old, new): every non-overlapping occurrence, leftmost first
Replace(s, old, new) ==
    IF old = <<>> THEN Interleave(s, new) ELSE ReplaceFrom(s, 1, old, new)

\* str.lower on one character (the upper-case letters of the model)
LowerChar(c) ==
    CASE c = "P" -> "p"
      [] c = "F" -> "f"
      [] OTHER -> c

lower(s) == [i \in 1..Len(s) |-> LowerChar(s[i])]

(***************************************************************************)
(* Dicts                                                                   *)
(***************************************************************************)

Range(s) == {s[i] : i \in 1..Len(s)}

DictKeys(d) == {d[i][1] : i \in 1..Len(d)}

DictHas(d, k) == \E i \in 1..Len(d) : d[i][1] = k

\* d.get(k, default)
DictGet(d, k, default) ==
    IF DictHas(d, k)
    THEN d[CHOOSE i \in 1..Len(d) : d[i][1] = k][2]
    ELSE default

\* d[k] = v: an existing key keeps its place, a new key goes last
DictSet(d, k, v) ==
    IF DictHas(d, k)
    THEN [i \in 1..Len(d) |-> IF d[i][1] = k THEN <<k, v>> ELSE d[i]]
    ELSE Append(d, <<k, v>>)

\* del d[k] for a key that is present
DictDel(d, k) == SelectSeq(d, LAMBDA e : e[1] # k)

RECURSIVE DictUpdate(_, _)
\* d.update(other)
DictUpdate(d, other) ==
    IF other = <<>> THEN d
    ELSE DictUpdate(DictSet(d, other[1][1], other[1][2]), Tail(other))


(***************************************************************************)
(* State                                                                   *)
(***************************************************************************)

\* the simple miner: a Tracer and a call of get_grammar on it
VARIABLES
    inputstr,     \* Tracer.inputstr
    the_values,   \* Tracer.the_values: dict var -> value
    grammar,      \* get_grammar's grammar: dict nonterminal -> list of alternatives
    new_rules,    \* get_grammar's new_rules: list of (var, alt_key, value)
    pc,           \* where the run is: "trace", "loop", "scanned", "returned", "raised"
    obs0,         \* history: the_values when get_grammar was called
    found,        \* history: the vars whose value a scan found in an alternative
    ruled,        \* history: the vars for which a rule was added
    passes        \* history: number of scans made

minerVars ==
    <<inputstr, the_values, grammar, new_rules, pc, obs0, found, ruled, passes>>

\* the trace hook of the process and the with-blocks around traced calls
VARIABLES
    trace_hook,   \* what sys.gettrace() returns
    scopes,       \* the with-blocks entered and not yet left, innermost last
    exc,          \* the exception in flight, "none" when there is none
    ntracers,     \* Tracer objects constructed so far
    hook0,        \* history: the hook before any tracer was entered
    lastexit      \* history: the last __exit__

hookVars == <<trace_hook, scopes, exc, ntracers, hook0, lastexit>>

\* the stack-scoped get_grammar on the definitions a StackTracer recorded
VARIABLES
    stack_input,  \* StackTracer.inputstr
    defs,         \* tracer.vars.defs: dict qualified var -> value, start symbol first
    my_grammar,   \* get_grammar's my_grammar: dict nonterminal -> set of alternatives
    sg_i,         \* the next item of defs the for loop takes
    sg_pc         \* "loop" or "returned"

stackGrammarVars == <<stack_input, defs, my_grammar, sg_i, sg_pc>>

\* merge_grammars applied to grammars G1, G2, G3
VARIABLES
    G1, G2, G3,   \* the grammars merged: dict nonterminal -> list of alternatives
    res,          \* the results of the calls made so far
    apc           \* "inputs", "pairs" or "nested"

algebraVars == <<G1, G2, G3, res, apc>>

\* get_merged_grammar over the traces of several samples
VARIABLES
    merged_grammar, \* get_merged_grammar's merged_grammar
    ntraces,        \* traces the for loop has taken
    mg_pc,          \* "loop", "returned" or "raised"
    merged_from     \* history: each trace's sample and the grammar get_grammar returned

mergedVars == <<merged_grammar, ntraces, mg_pc, merged_from>>

\* Tracer.traceit on the frames of a traced call
VARIABLES
    t_input,      \* Tracer.inputstr
    t_values,     \* Tracer.the_values
    t_last        \* history: per name, the last local seen that passed the filter

traceVars == <<t_input, t_values, t_last>>

\* StackTracer and TaintedTracer: the events of a traced call
VARIABLES
    tracer_kind,  \* "StackTracer" or "TaintedTracer"
    calls,        \* the traced calls that have not returned, outermost first
    istack,       \* InputStack.inputs
    vars_defs,    \* Vars.defs
    raising,      \* an exception is propagating in the innermost traced frame
    st_err,       \* "none", or the exception traceit raised
    first_acc,    \* history: per qualified name, the first value update_vars accepted
    last_has      \* history: the last membership test update_vars made on the top frame

tracerVars ==
    <<tracer_kind, calls, istack, vars_defs, raising, st_err, first_acc, last_has>>

vars ==
    <<minerVars, hookVars, stackGrammarVars, algebraVars, mergedVars, traceVars,
      tracerVars>>

notMiner ==
    <<hookVars, stackGrammarVars, algebraVars, mergedVars, traceVars, tracerVars>>

notHook ==
    <<minerVars, stackGrammarVars, algebraVars, mergedVars, traceVars, tracerVars>>

notStackGrammar ==
    <<minerVars, hookVars, algebraVars, mergedVars, traceVars, tracerVars>>

notAlgebra ==
    <<minerVars, hookVars, stackGrammarVars, mergedVars, traceVars, tracerVars>>

notMerged ==
    <<minerVars, hookVars, stackGrammarVars, algebraVars, traceVars, tracerVars>>

notTrace ==
    <<minerVars, hookVars, stackGrammarVars, algebraVars, mergedVars, tracerVars>>

notTracer ==
    <<minerVars, hookVars, stackGrammarVars, algebraVars, mergedVars, traceVars>>

(***************************************************************************)
(* Bounds and inputs                                                       *)
(***************************************************************************)

\* longest value a traced local holds
MaxValLen == 4

\* the sample inputs (INPUTS of the notebook, shortened)
Samples ==
    { <<"a", "b", "a", "a", "b", "a">>,
      <<"a", "b", "a", "b">> }

\* names of the local variables of the traced frames
VarNames == { <<"p">>, <<"P">>, <<"a", "b", "a">> }

Substrings(s, lo, hi) ==
    {SubSeq(s, i, i + n - 1) : <<i, n>> \in
        {x \in (1..Len(s)) \X (lo..hi) : x[1] + x[2] - 1 <= Len(s)}}

Str(v) == [isstr |-> TRUE, val |-> v]

\* a local that is no string (isinstance(value, str) is false)
NonStr == [isstr |-> FALSE, val |-> <<>>]

\* what a local of a traced frame may hold while s is processed: the pieces
\* of s, a string that does not occur in s, and a value that is no string
LocalValues(s) ==
    {Str(v) : v \in Substrings(s, 2, MaxValLen)}
        \cup {Str(<<"z", "z", "z">>), NonStr}

(***************************************************************************)
(* The simple miner: Tracer.traceit and get_grammar                        *)
(***************************************************************************)

\* the start symbol, imported from Grammars
START_SYMBOL == <<"<", "s", "t", "a", "r", "t", ">">>

\* len(value) > MinLen in Tracer.traceit
MinLen == 2

nonterminal(var) == <<"<">> \o lower(var) \o <<">">>

\* the dict comprehension of Tracer.traceit over frame.f_locals
my_vars(locals, input) ==
    LET kept == SelectSeq(locals, LAMBDA e :
                    e[2].isstr /\ Len(e[2].val) > MinLen /\ In(e[2].val, input))
    IN  [i \in 1..Len(kept) |-> <<kept[i][1], kept[i][2].val>>]

\* Tracer.traceit assigning my_vars instead of updating the_values with it
traceit_assign(values, input, locals) == my_vars(locals, input)

\* Tracer.traceit: the_values after the event
traceit(values, input, locals) == DictUpdate(values, my_vars(locals, input))

\* s.replace(old, new, 1)
ReplaceFirst(s, old, new) ==
    IF ~In(old, s) THEN s
    ELSE LET i == CHOOSE k \in 1..(Len(s) + 1) :
                      MatchAt(s, k, old) /\ \A m \in 1..(k - 1) : ~MatchAt(s, m, old)
         IN  SubSeq(s, 1, i - 1) \o new \o Drop(s, i + Len(old))

RECURSIVE ScanAlts_first(_, _, _, _, _)
\* ScanAlts replacing only the first occurrence of the value
ScanAlts_first(var, value, alts, j, nr) ==
    IF j > Len(alts) THEN [alts |-> alts, nr |-> nr]
    ELSE IF ~In(value, alts[j]) THEN ScanAlts_first(var, value, alts, j + 1, nr)
    ELSE ScanAlts_first(var, value,
                  [alts EXCEPT ![j] = ReplaceFirst(alts[j], value, <<"<">> \o lower(var) \o <<">">>)],
                  j + 1,
                  Append(nr, <<var, <<"<">> \o lower(var) \o <<">">>, value>>))

RECURSIVE ScanAlts(_, _, _, _, _)
\* for j, repl in enumerate(repl_alternatives)
ScanAlts(var, value, alts, j, nr) ==
    IF j > Len(alts) THEN [alts |-> alts, nr |-> nr]
    ELSE IF ~In(value, alts[j]) THEN ScanAlts(var, value, alts, j + 1, nr)
    ELSE ScanAlts(var, value,
                  [alts EXCEPT ![j] = Replace(alts[j], value, nonterminal(var))],
                  j + 1,
                  Append(nr, <<var, nonterminal(var), value>>))

RECURSIVE ScanKeys(_, _, _, _, _)
\* for key, repl_alternatives in grammar.items()
ScanKeys(var, value, g, k, nr) ==
    IF k > Len(g) THEN [g |-> g, nr |-> nr]
    ELSE LET r == ScanAlts(var, value, g[k][2], 1, nr)
         IN  ScanKeys(var, value, [g EXCEPT ![k] = <<g[k][1], r.alts>>], k + 1, r.nr)

RECURSIVE ScanTraces(_, _, _, _)
\* for var, value in traces.items()
ScanTraces(traces, i, g, nr) ==
    IF i > Len(traces) THEN [g |-> g, nr |-> nr]
    ELSE LET r == ScanKeys(traces[i][1], traces[i][2], g, 1, nr)
         IN  ScanTraces(traces, i + 1, r.g, r.nr)

RECURSIVE AddRules_clear(_, _, _)
\* AddRules forgetting every pending observation instead of the processed one
AddRules_clear(nr, g, traces) ==
    IF nr = <<>>
    THEN [g |-> g, traces |-> <<>>, raised |-> FALSE, ruled |-> {}]
    ELSE LET r == AddRules_clear(Tail(nr), DictSet(g, nr[1][2], <<nr[1][3]>>), traces)
         IN  [r EXCEPT !.ruled = r.ruled \cup {nr[1][1]}]

RECURSIVE AddRules_keep(_, _, _)
\* the loop over new_rules without "del traces[var]"
AddRules_keep(nr, g, traces) ==
    IF nr = <<>>
    THEN [g |-> g, traces |-> traces, raised |-> FALSE, ruled |-> {}]
    ELSE LET r == AddRules_keep(Tail(nr), DictSet(g, nr[1][2], <<nr[1][3]>>), traces)
         IN  [r EXCEPT !.ruled = r.ruled \cup {nr[1][1]}]

RECURSIVE AddRules(_, _, _)
\* for (var, alt_key, value) in new_rules: del traces[var] raises KeyError
\* when var is no longer a key
AddRules(nr, g, traces) ==
    IF nr = <<>>
    THEN [g |-> g, traces |-> traces, raised |-> FALSE, ruled |-> {}]
    ELSE LET g2 == DictSet(g, nr[1][2], <<nr[1][3]>>)
         IN  IF ~DictHas(traces, nr[1][1])
             THEN [g |-> g2, traces |-> traces, raised |-> TRUE,
                   ruled |-> {nr[1][1]}]
             ELSE LET r == AddRules(Tail(nr), g2, DictDel(traces, nr[1][1]))
                  IN  [r EXCEPT !.ruled = r.ruled \cup {nr[1][1]}]

RECURSIVE GrammarLoop(_, _)
\* the while True loop of get_grammar
GrammarLoop(g, traces) ==
    LET s == ScanTraces(traces, 1, g, <<>>)
    IN  IF s.nr = <<>>
        THEN [g |-> s.g, traces |-> traces, raised |-> FALSE, ruled |-> {}]
        ELSE LET a == AddRules(s.nr, s.g, traces)
             IN  IF a.raised THEN a ELSE GrammarLoop(a.g, a.traces)

\* get_grammar(tracer) of the simple miner: the grammar returned, what is left
\* of tracer.the_values, and whether it raised instead of returning
get_grammar(values, input) ==
    GrammarLoop(<< <<START_SYMBOL, <<input>> >> >>, values)

\* a Tracer constructed on one of the samples
MinerInit ==
    /\ inputstr \in Samples
    /\ the_values = <<>>
    /\ grammar = <<>>
    /\ new_rules = <<>>
    /\ pc = "trace"
    /\ obs0 = <<>>
    /\ found = {}
    /\ ruled = {}
    /\ passes = 0

\* one trace event while the target function runs
TraceIt ==
    /\ pc = "trace"
    /\ \E var \in VarNames, lv \in LocalValues(inputstr) :
           the_values' = traceit(the_values, inputstr, << <<var, lv>> >>)
    /\ UNCHANGED <<inputstr, grammar, new_rules, pc, obs0, found, ruled, passes>>
    /\ UNCHANGED notMiner

\* get_grammar is called on the tracer
CallGetGrammar ==
    /\ pc = "trace"
    /\ grammar' = << <<START_SYMBOL, <<inputstr>> >> >>
    /\ new_rules' = <<>>
    /\ obs0' = the_values
    /\ pc' = "loop"
    /\ UNCHANGED <<inputstr, the_values, found, ruled, passes>>
    /\ UNCHANGED notMiner

\* one pass of the for loop over traces
ScanPass ==
    /\ pc = "loop"
    /\ LET s == ScanTraces(the_values, 1, grammar, <<>>)
       IN  /\ grammar' = s.g
           /\ new_rules' = s.nr
           /\ found' = found \cup {s.nr[i][1] : i \in 1..Len(s.nr)}
    /\ passes' = passes + 1
    /\ pc' = "scanned"
    /\ UNCHANGED <<inputstr, the_values, obs0, ruled>>
    /\ UNCHANGED notMiner

\* if not new_rules: break, and the return
Break ==
    /\ pc = "scanned"
    /\ new_rules = <<>>
    /\ pc' = "returned"
    /\ UNCHANGED <<inputstr, the_values, grammar, new_rules, obs0, found, ruled,
                   passes>>
    /\ UNCHANGED notMiner

\* the loop over new_rules
AddNewRules ==
    /\ pc = "scanned"
    /\ new_rules # <<>>
    /\ LET a == AddRules(new_rules, grammar, the_values)
       IN  /\ grammar' = a.g
           /\ the_values' = a.traces
           /\ ruled' = ruled \cup a.ruled
           /\ pc' = IF a.raised THEN "raised" ELSE "loop"
    /\ UNCHANGED <<inputstr, new_rules, obs0, found, passes>>
    /\ UNCHANGED notMiner

(***************************************************************************)
(* Derivation: what a grammar with one alternative per nonterminal derives *)
(***************************************************************************)

\* longest derivation followed
MaxExpand == 40

\* a nonterminal reference starts at i: "<", then no "<", ">" or " ", then ">"
IsRefAt(s, i) ==
    /\ s[i] = "<"
    /\ \E j \in (i + 1)..Len(s) :
           /\ s[j] = ">"
           /\ \A k \in (i + 1)..(j - 1) : s[k] \notin {"<", ">", " "}

RefEnd(s, i) == CHOOSE j \in (i + 1)..Len(s) : s[j] = ">" /\ \A k \in (i + 1)..(j - 1) : s[k] # ">"

RefAt(s, i) == SubSeq(s, i, RefEnd(s, i))

\* the nonterminal references of an alternative
Refs(s) == {RefAt(s, i) : i \in {k \in 1..Len(s) : IsRefAt(s, k)}}

RECURSIVE Expand(_, _, _)
\* replace the leftmost reference that has a rule by that rule's first
\* alternative, until no such reference is left
Expand(g, s, fuel) ==
    LET at == {i \in 1..Len(s) : IsRefAt(s, i) /\ DictHas(g, RefAt(s, i))}
    IN  IF at = {} \/ fuel = 0 THEN s
        ELSE LET i == CHOOSE k \in at : \A m \in at : k <= m
                 alts == DictGet(g, RefAt(s, i), <<>>)
             IN  IF alts = <<>> THEN s
                 ELSE Expand(g, SubSeq(s, 1, i - 1) \o alts[1]
                                  \o Drop(s, RefEnd(s, i) + 1), fuel - 1)

\* every nonterminal of g has exactly one alternative
SingleAlternatives(g) == \A i \in 1..Len(g) : Len(g[i][2]) = 1

\* g derives exactly the string s from the start symbol
Derives(g, s) ==
    /\ DictHas(g, START_SYMBOL)
    /\ SingleAlternatives(g)
    /\ Expand(g, DictGet(g, START_SYMBOL, <<>>)[1], MaxExpand) = s

(***************************************************************************)
(* Claims about the simple miner                                           *)
(***************************************************************************)

\* C1: the grammar the simple get_grammar returns derives exactly the sample
C1_ReturnedGrammarDerivesSample ==
    pc = "returned" => Derives(grammar, inputstr)

\* the grammar as a map: its nonterminals and, for each, its alternatives
AsMap(g) == [k \in DictKeys(g) |-> DictGet(g, k, <<>>)]

SameNonterminal(i) ==
    {j \in 1..Len(obs0) : j # i /\ nonterminal(obs0[j][1]) = nonterminal(obs0[i][1])}

\* C9: when the simple get_grammar returns, an observation got a rule iff its
\* value was found in an alternative; one never found got no rule and is still
\* pending with its value, one that got a rule is no longer pending
C9_UnmatchedObservationDropped ==
    pc = "returned" =>
        \A i \in 1..Len(obs0) :
            LET v == obs0[i][1]
                x == obs0[i][2]
            IN  /\ (v \in ruled) <=> (v \in found)
                /\ v \notin found =>
                       /\ DictHas(the_values, v)
                       /\ DictGet(the_values, v, <<>>) = x
                       /\ (\A j \in SameNonterminal(i) : obs0[j][1] \notin found)
                              => ~DictHas(grammar, nonterminal(v))
                /\ v \in ruled =>
                       /\ ~DictHas(the_values, v)
                       /\ DictHas(grammar, nonterminal(v))

\* C9 witness: a returned run in which one observation was never found and
\* another got its rule
C9_Witness ==
    /\ pc = "returned"
    /\ \E i, j \in 1..Len(obs0) :
           /\ obs0[i][1] \notin found
           /\ DictHas(the_values, obs0[i][1])
           /\ ~DictHas(grammar, nonterminal(obs0[i][1]))
           /\ obs0[j][1] \in ruled

\* the alternatives of g
Alternatives(g) == UNION {Range(g[i][2]) : i \in 1..Len(g)}

RECURSIVE Reachable(_, _, _)
\* the nonterminals referenced, directly or through other rules, from the
\* alternatives of the nonterminals in seen
Reachable(g, seen, n) ==
    LET more == UNION {Refs(a) : a \in UNION {Range(DictGet(g, k, <<>>)) : k \in seen}}
    IN  IF n = 0 \/ more \subseteq seen THEN seen
        ELSE Reachable(g, seen \cup more, n - 1)

\* every reference of an alternative has a rule
NoDangling(g) == \A a \in Alternatives(g) : \A r \in Refs(a) : DictHas(g, r)

\* every rule is the start symbol's or is referenced from an alternative
\* reachable from the start symbol
NoUnused(g) == DictKeys(g) \subseteq Reachable(g, {START_SYMBOL}, Len(g))

\* C10 (simple get_grammar): the grammar returned has no dangling reference
\* and no rule that is not referenced from the start symbol
C10_NoDanglingNoUnused ==
    pc = "returned" => NoDangling(grammar) /\ NoUnused(grammar)

\* the names of the observations in new_rules
RuleVars(nr) == {nr[i][1] : i \in 1..Len(nr)}

\* C16: get_grammar terminates on N observations: a pass that made a
\* replacement removes at least one observation from traces, a removed
\* observation never comes back and is never searched for again, the pass
\* that makes no replacement is the last one, and at most N + 1 passes are
\* made
C16_GetGrammarTerminates ==
    /\ [](pc \in {"loop", "scanned", "returned", "raised"} =>
             passes <= Len(obs0) + 1)
    /\ [][(pc = "scanned" /\ new_rules # <<>>) =>
             /\ DictKeys(the_values') \subseteq DictKeys(the_values)
             /\ DictKeys(the_values') # DictKeys(the_values)]_vars
    /\ [][pc # "trace" => DictKeys(the_values') \subseteq DictKeys(the_values)]_vars
    /\ [][pc = "loop" => RuleVars(new_rules') \subseteq DictKeys(the_values)]_vars
    /\ [][(pc = "scanned" /\ new_rules = <<>>) => pc' = "returned"]_vars

\* get_grammar returned after N + 1 passes on N >= 2 observations
C16_Witness ==
    /\ pc = "returned"
    /\ Len(obs0) >= 2
    /\ passes = Len(obs0) + 1
    /\ the_values = <<>>

(***************************************************************************)
(* get_grammar on observations whose values share a piece                  *)
(***************************************************************************)

\* a sample in which two pieces that do not overlap contain a third one
LongSample == <<"a", "b", "a", "b", "a", "b", "a">>

\* names of the locals recorded on it
RuleNames == { <<"x">>, <<"y">>, <<"z">> }

\* what Tracer.traceit can have recorded on sample s: up to three locals,
\* each holding a piece of s longer than MinLen
RecordedOn(s) ==
    LET items == RuleNames \X Substrings(s, MinLen + 1, MaxValLen)
        seqs == UNION {[1..n -> items] : n \in 0..3}
    IN  {q \in seqs : \A i, j \in 1..Len(q) : i # j => q[i][1] # q[j][1]}

\* a Tracer after the traced call on the long sample
RulesInit ==
    /\ inputstr = LongSample
    /\ the_values \in RecordedOn(inputstr)
    /\ grammar = <<>>
    /\ new_rules = <<>>
    /\ pc = "trace"
    /\ obs0 = <<>>
    /\ found = {}
    /\ ruled = {}
    /\ passes = 0

\* the observations the last pass found in more than one alternative
FoundTwice(nr) ==
    {i \in 1..Len(nr) : \E j \in 1..Len(nr) : j # i /\ nr[j][1] = nr[i][1]}

\* C17: when a pass found an observation's value in more than one
\* alternative, the loop over new_rules adds the rule of its nonterminal,
\* removes the observation from traces and get_grammar goes on to return a
\* grammar
C17_FoundTwiceStillReturns ==
    (pc \in {"loop", "raised"} /\ FoundTwice(new_rules) # {}) =>
        /\ pc # "raised"
        /\ \A i \in FoundTwice(new_rules) :
               /\ DictGet(grammar, new_rules[i][2], <<>>) = <<new_rules[i][3]>>
               /\ ~DictHas(the_values, new_rules[i][1])

(***************************************************************************)
(* The trace hook: Tracer.__enter__ and Tracer.__exit__                    *)
(***************************************************************************)

\* with-blocks open at once
MaxDepth == 3

\* Tracer objects constructed in a run
MaxTracers == 4

\* what the target function may raise
Exceptions == {"ValueError", "KeyError"}

\* the hooks sys.gettrace() may return before a tracer is entered: None, or
\* the trace function of a debugger or coverage tool
NoHook == <<"None", 0>>

PriorHook == <<"prior", 0>>

PriorHooks == {NoHook, PriorHook}

\* lastexit before the first __exit__
NoExit ==
    [tracer |-> 0, before |-> NoHook, after |-> NoHook, thrown |-> "none",
     received |-> "none"]

\* the bound method self.traceit of Tracer object t
TraceitOf(t) == <<"traceit", t>>

\* Tracer.__enter__ on a fresh object t: the object's oldtrace and the new hook
Tracer_enter(t, hook) == [tracer |-> t, oldtrace |-> hook, sethook |-> TraceitOf(t)]

\* __exit__ clearing the hook instead of restoring the saved one
Tracer_exit_clear(scope) == [sethook |-> NoHook, returns |-> "None"]

\* __exit__ returning a truthy value
Tracer_exit_swallow(scope) == [sethook |-> scope.oldtrace, returns |-> "True"]

\* Tracer.__exit__(*args): the hook it sets and the value it returns (None,
\* which is falsy: the with statement re-raises the exception it passed in)
Tracer_exit(scope) == [sethook |-> scope.oldtrace, returns |-> "None"]

\* the with statement, after __exit__ returned r for the exception e in flight:
\* a truthy r suppresses e
AfterExit(r, e) == IF r = "True" THEN "none" ELSE e

HookInit ==
    /\ hook0 \in PriorHooks
    /\ trace_hook = hook0
    /\ scopes = <<>>
    /\ exc = "none"
    /\ ntracers = 0
    /\ lastexit = NoExit

\* with Tracer(...) as tracer: a new Tracer object is entered
Enter ==
    /\ exc = "none"
    /\ Len(scopes) < MaxDepth
    /\ ntracers < MaxTracers
    /\ LET r == Tracer_enter(ntracers + 1, trace_hook)
       IN  /\ scopes' = Append(scopes, [tracer |-> r.tracer, oldtrace |-> r.oldtrace,
                                         before |-> trace_hook])
           /\ trace_hook' = r.sethook
    /\ ntracers' = ntracers + 1
    /\ UNCHANGED <<exc, hook0, lastexit>>
    /\ UNCHANGED notHook

\* the traced call of the innermost with-block raises e
TargetThrows ==
    /\ exc = "none"
    /\ scopes # <<>>
    /\ \E e \in Exceptions : exc' = e
    /\ UNCHANGED <<trace_hook, scopes, ntracers, hook0, lastexit>>
    /\ UNCHANGED notHook

\* the innermost with-block is left, normally or by the exception in flight
Exit ==
    /\ scopes # <<>>
    /\ LET top == scopes[Len(scopes)]
           r == Tracer_exit(top)
       IN  /\ trace_hook' = r.sethook
           /\ exc' = AfterExit(r.returns, exc)
           /\ lastexit' = [tracer |-> top.tracer, before |-> top.before,
                           after |-> r.sethook, thrown |-> exc,
                           received |-> AfterExit(r.returns, exc)]
    /\ scopes' = SubSeq(scopes, 1, Len(scopes) - 1)
    /\ UNCHANGED <<ntracers, hook0>>
    /\ UNCHANGED notHook

\* the code around the with-block handles the exception it received
Catch ==
    /\ exc # "none"
    /\ exc' = "none"
    /\ UNCHANGED <<trace_hook, scopes, ntracers, hook0, lastexit>>
    /\ UNCHANGED notHook

C4_FailurePropagatesAfterHookRemoved ==
    (lastexit.tracer # 0 /\ lastexit.thrown # "none") =>
        /\ lastexit.received = lastexit.thrown
        /\ lastexit.after # TraceitOf(lastexit.tracer)
        /\ lastexit.after = lastexit.before

\* C4 witness: the outermost with-block was left by a KeyError of the target,
\* which is in flight at the caller with the prior hook back in place
C4_Witness ==
    /\ lastexit.tracer # 0
    /\ lastexit.thrown = "KeyError"
    /\ exc = "KeyError"
    /\ scopes = <<>>
    /\ trace_hook = PriorHook

(***************************************************************************)
(* The stack-scoped get_grammar                                            *)
(***************************************************************************)

\* definitions recorded besides the start symbol's
MaxDefs == 2

\* the code object name of the constructor of a class
NewName == <<"_", "_", "n", "e", "w", "_", "_">>

\* the traced frames: a function f and the constructor of a class F
Frames ==
    { [co_name |-> <<"f">>, cls |-> <<>>],
      [co_name |-> NewName, cls |-> <<"F">>] }

\* names of the variables of the traced frames
StackVarNames == { <<"x">>, <<"a", "b">> }

\* Vars.varname with Vars.Namespaced = True
varname(var, frame) ==
    LET class_name == IF frame.co_name = NewName THEN frame.cls ELSE frame.co_name
    IN  class_name \o <<":">> \o var

QualNames == {varname(v, fr) : v \in StackVarNames, fr \in Frames}

\* len(value) >= MinStackLen in Vars.update_vars
MinStackLen == 2

\* the dicts a StackTracer may have recorded for sample s: the start symbol
\* mapped to s, then up to MaxDefs qualified variables mapped to pieces of s
DefsOf(s) ==
    LET items == QualNames \X Substrings(s, MinStackLen, MaxValLen)
        seqs == UNION {[1..n -> items] : n \in 0..MaxDefs}
    IN  { << <<START_SYMBOL, s>> >> \o d : d \in
            {q \in seqs : \A i, j \in 1..Len(q) : i # j => q[i][1] # q[j][1]} }

\* one turn of "for var, value in assignments.items()"
StackAssign(g, var, value) ==
    LET nt_var == IF var = START_SYMBOL THEN var ELSE nonterminal(var)
    IN  IF g # <<>>
        THEN LET g2 == [i \in 1..Len(g) |->
                          <<g[i][1], {IF In(value, r) THEN Replace(r, value, nt_var)
                                      ELSE r : r \in g[i][2]}>>]
                 append == \E i \in 1..Len(g) : \E r \in g[i][2] : In(value, r)
             IN  IF append THEN DictSet(g2, nt_var, {value}) ELSE g2
        ELSE DictSet(g, nt_var, {value})

RECURSIVE StackLoop(_, _, _)
StackLoop(assignments, i, g) ==
    IF i > Len(assignments) THEN g
    ELSE StackLoop(assignments, i + 1,
                   StackAssign(g, assignments[i][1], assignments[i][2]))

\* get_grammar(tracer) of the stack-scoped miner
get_grammar_stack(assignments) == StackLoop(assignments, 1, <<>>)

StackGrammarInit ==
    /\ stack_input \in Samples
    /\ defs \in DefsOf(stack_input)
    /\ my_grammar = <<>>
    /\ sg_i = 1
    /\ sg_pc = "loop"

\* the for loop takes the next recorded definition
StackStep ==
    /\ sg_pc = "loop"
    /\ sg_i <= Len(defs)
    /\ my_grammar' = StackAssign(my_grammar, defs[sg_i][1], defs[sg_i][2])
    /\ sg_i' = sg_i + 1
    /\ UNCHANGED <<stack_input, defs, sg_pc>>
    /\ UNCHANGED notStackGrammar

\* return my_grammar
StackReturn ==
    /\ sg_pc = "loop"
    /\ sg_i > Len(defs)
    /\ sg_pc' = "returned"
    /\ UNCHANGED <<stack_input, defs, my_grammar, sg_i>>
    /\ UNCHANGED notStackGrammar

RECURSIVE SetToSeq(_)
\* the elements of a finite set, each once
SetToSeq(S) ==
    IF S = {} THEN <<>>
    ELSE LET x == CHOOSE y \in S : TRUE IN <<x>> \o SetToSeq(S \ {x})

\* a set-valued grammar with its alternatives listed
AsLists(g) == [i \in 1..Len(g) |-> <<g[i][1], SetToSeq(g[i][2])>>]

\* C2: the grammar the stack-scoped get_grammar returns has exactly one
\* alternative per nonterminal and its start symbol derives exactly the sample
C2_StackGrammarDerivesSample ==
    sg_pc = "returned" =>
        /\ \A i \in 1..Len(my_grammar) : Cardinality(my_grammar[i][2]) = 1
        /\ Derives(AsLists(my_grammar), stack_input)

\* C10 (stack-scoped get_grammar): the grammar returned has no dangling
\* reference and no rule that is not referenced from the start symbol
C10_StackNoDanglingNoUnused ==
    sg_pc = "returned" =>
        NoDangling(AsLists(my_grammar)) /\ NoUnused(AsLists(my_grammar))

(***************************************************************************)
(* Tracer.traceit over the events of a traced call                         *)
(***************************************************************************)

\* frame.f_locals of the traced frames on sample s: one local, or the two
\* locals p and P
LocalsOf(s) ==
    {<< <<n, v>> >> : <<n, v>> \in VarNames \X LocalValues(s)}
        \cup {<< <<(<<"p">>), v1>>, <<(<<"P">>), v2>> >> : <<v1, v2>> \in
                LocalValues(s) \X LocalValues(s)}

\* nothing seen under a name
NotSeen == [val |-> <<>>, skipped |-> FALSE]

\* the dict comprehension's condition on a local
NonTrivial(lv, input) == lv.isstr /\ Len(lv.val) > MinLen /\ In(lv.val, input)

RECURSIVE Seen(_, _, _)
\* history: per name the last local that was a non trivial piece of the
\* input, and whether a local that was none was seen under the name since
Seen(last, locals, input) ==
    IF locals = <<>> THEN last
    ELSE LET n == locals[1][1]
             lv == locals[1][2]
         IN  Seen([last EXCEPT ![n] =
                      IF NonTrivial(lv, input)
                      THEN [val |-> lv.val, skipped |-> FALSE]
                      ELSE [@ EXCEPT !.skipped = TRUE]],
                  Tail(locals), input)

\* a Tracer constructed on one of the samples
TraceInit ==
    /\ t_input \in Samples
    /\ t_values = <<>>
    /\ t_last = [n \in VarNames |-> NotSeen]

\* traceit is called on an event of a frame
TraceEvent ==
    /\ \E locals \in LocalsOf(t_input) :
           /\ t_values' = traceit(t_values, t_input, locals)
           /\ t_last' = Seen(t_last, locals, t_input)
    /\ UNCHANGED t_input
    /\ UNCHANGED notTrace

\* C14: after any sequence of trace events the_values holds, for each name,
\* the most recent local seen under it that was a string longer than 2
\* characters and a substring of the sample; other values are never stored
\* and never erase a stored one
C14_LastNonTrivialValueKept ==
    t_last # <<>> =>
        /\ \A n \in VarNames :
               IF t_last[n].val = <<>> THEN ~DictHas(t_values, n)
               ELSE DictGet(t_values, n, <<>>) = t_last[n].val
        /\ DictKeys(t_values) \subseteq VarNames
        /\ \A i \in 1..Len(t_values) :
               Len(t_values[i][2]) > 2 /\ In(t_values[i][2], t_input)

\* a value is stored under a name, a later local of that name was not a non
\* trivial piece of the sample, and the stored value is still there
C14_Witness ==
    /\ t_last # <<>>
    /\ \E n \in VarNames :
           /\ t_last[n].skipped
           /\ t_last[n].val # <<>>
           /\ DictGet(t_values, n, <<>>) = t_last[n].val
    /\ \E n \in VarNames : ~t_last[n].skipped /\ t_last[n].val # <<>>

(***************************************************************************)
(* StackTracer and TaintedTracer: InputStack, Vars and traceit             *)
(***************************************************************************)

\* nesting depth of the traced calls
MaxCalls == 2

\* the sample the tracer is constructed on
StackSample == <<"a", "b", "a", "b">>

\* the objects the traced program passes around: type is "str", "tstr" (a
\* subclass of str whose parent is the tstr it was taken from, 0 for None) or
\* "other"
Heap ==
    << [type |-> "str",   text |-> StackSample,        parent |-> 0],
       [type |-> "tstr",  text |-> StackSample,        parent |-> 0],
       [type |-> "tstr",  text |-> <<"a", "b", "a">>,   parent |-> 2],
       [type |-> "tstr",  text |-> <<"a", "b">>,        parent |-> 3],
       [type |-> "tstr",  text |-> <<"a", "b", "a">>,   parent |-> 0],
       [type |-> "str",   text |-> <<"z", "z", "z">>,   parent |-> 0],
       [type |-> "tstr",  text |-> <<"a">>,             parent |-> 2],
       [type |-> "other", text |-> <<>>,                parent |-> 0] >>

Objects == 1..Len(Heap)

\* Tracer.inputstr, the object the tracer is constructed on
InputObj == 1

\* tracer(): inputstr itself, or tstr(inputstr, parent=None) for a TaintedTracer
SampleObj(kind) == IF kind = "TaintedTracer" THEN 2 ELSE InputObj

\* isinstance(value, str)
IsStr(v) == Heap[v].type \in {"str", "tstr"}

\* isinstance(value, tstr), type(s) == tstr
IsTstr(v) == Heap[v].type = "tstr"

\* the values of a dict
Values(d) == {d[i][2] : i \in 1..Len(d)}

\* InputStack.has on a stack that is not empty
InputStack_has(inputs, val) ==
    \E w \in Values(inputs[Len(inputs)]) : In(Heap[val].text, Heap[w].text)

RECURSIVE is_from(_, _)
\* is_from of TaintedInputStack.has: s walks from var1 along the parents
is_from(s, var2) ==
    IF s = 0 \/ ~IsTstr(s) THEN FALSE
    ELSE IF var2 = s THEN TRUE
    ELSE is_from(Heap[s].parent, var2)

\* the same test made on the text of the strings
TaintedInputStack_has_text(inputs, val) ==
    \E w \in Values(inputs[Len(inputs)]) : In(Heap[val].text, Heap[w].text)

\* TaintedInputStack.has on a stack that is not empty
TaintedInputStack_has(inputs, val) ==
    \E w \in Values(inputs[Len(inputs)]) : is_from(val, w)

\* istack.has of the tracer of this kind
has(kind, inputs, val) ==
    IF kind = "TaintedTracer" THEN TaintedInputStack_has(inputs, val)
    ELSE InputStack_has(inputs, val)

\* the isinstance test of push and update_vars of the tracer of this kind
IsTraced(kind, v) == IF kind = "TaintedTracer" THEN IsTstr(v) ELSE IsStr(v)

\* push that appends a frame only when it holds something
push_nonempty(kind, inputs, params) ==
    LET my_inputs ==
            IF inputs = <<>>
            THEN SelectSeq(params, LAMBDA e : IsTraced(kind, e[2]))
            ELSE SelectSeq(params, LAMBDA e :
                               IsTraced(kind, e[2]) /\ has(kind, inputs, e[2]))
    IN  IF my_inputs = <<>> THEN inputs ELSE Append(inputs, my_inputs)

\* InputStack.push and TaintedInputStack.push
push(kind, inputs, params) ==
    LET my_inputs ==
            IF inputs = <<>>
            THEN SelectSeq(params, LAMBDA e : IsTraced(kind, e[2]))
            ELSE SelectSeq(params, LAMBDA e :
                               IsTraced(kind, e[2]) /\ has(kind, inputs, e[2]))
    IN  Append(inputs, my_inputs)

\* no membership test made on the frame on top of the stack
NoHas == [val |-> 0, result |-> FALSE]

\* not self.defs.get(qual_var)
NotDefined(d, q) ==
    ~DictHas(d, q) \/ Heap[DictGet(d, q, 0)].text = <<>>

\* the same method without the "if not self.defs.get(qual_var)" test
update_vars_overwrite(kind, st, var, value, frame) ==
    IF ~IsTraced(kind, value) THEN st
    ELSE IF Len(Heap[value].text) < MinStackLen THEN st
    ELSE IF st.istack = <<>> THEN [st EXCEPT !.err = "IndexError"]
    ELSE LET h == has(kind, st.istack, value)
             st1 == [st EXCEPT !.last_has = [val |-> value, result |-> h]]
             q == varname(var, frame)
         IN  IF ~h THEN st1
             ELSE [st1 EXCEPT
                     !.first = IF DictHas(@, q) THEN @ ELSE DictSet(@, q, value),
                     !.defs = DictSet(@, q, value)]

\* Vars.update_vars and TaintedVars.update_vars; st holds istack.inputs (istack),
\* self.defs (defs), the exception raised (err) and the history (first, last_has)
update_vars(kind, st, var, value, frame) ==
    IF ~IsTraced(kind, value) THEN st
    ELSE IF Len(Heap[value].text) < MinStackLen THEN st
    ELSE IF st.istack = <<>> THEN [st EXCEPT !.err = "IndexError"]
    ELSE LET h == has(kind, st.istack, value)
             st1 == [st EXCEPT !.last_has = [val |-> value, result |-> h]]
             q == varname(var, frame)
         IN  IF ~h THEN st1
             ELSE [st1 EXCEPT
                     !.first = IF DictHas(@, q) THEN @ ELSE DictSet(@, q, value),
                     !.defs = IF NotDefined(@, q) THEN DictSet(@, q, value) ELSE @]

RECURSIVE UpdateAll(_, _, _, _)
\* for var, value in items: self.vars.update_vars(var, value, frame)
UpdateAll(kind, st, items, frame) ==
    IF items = <<>> \/ st.err # "none" THEN st
    ELSE UpdateAll(kind, update_vars(kind, st, items[1][1], items[1][2], frame),
                   Tail(items), frame)

\* the tracer's state as the methods see it
TracerState ==
    [istack |-> istack, defs |-> vars_defs, err |-> st_err, first |-> first_acc,
     last_has |-> last_has]

\* the local a 'line' event finds changed in the traced frame
TracedNames == { <<"x">> }

\* what a nested call is given as x
NestedArgs == {3, 4, 5, 6}

\* the parameters of a traced call: the outermost call receives tracer() as
\* x and may receive a second string as y, a nested call receives x
ParamsOf(kind, outermost) ==
    IF outermost
    THEN { << <<(<<"x">>), SampleObj(kind)>> >>,
           << <<(<<"x">>), SampleObj(kind)>>, <<(<<"y">>), 6>> >> }
    ELSE { << <<(<<"x">>), o>> >> : o \in NestedArgs }

\* a StackTracer or a TaintedTracer constructed on the sample
TracerInit ==
    /\ tracer_kind \in {"StackTracer", "TaintedTracer"}
    /\ calls = <<>>
    /\ istack = <<>>
    /\ vars_defs = << <<START_SYMBOL, InputObj>> >>
    /\ raising = FALSE
    /\ st_err = "none"
    /\ first_acc = <<>>
    /\ last_has = NoHas

\* traceit on a 'call' event of a frame of the traced module
CallEvent ==
    /\ st_err = "none"
    /\ ~raising
    /\ Len(calls) < MaxCalls
    /\ \E frame \in Frames : \E my_parameters \in ParamsOf(tracer_kind, calls = <<>>) :
           LET pushed == [TracerState EXCEPT
                             !.istack = push(tracer_kind, istack, my_parameters),
                             !.last_has = NoHas]
               st == UpdateAll(tracer_kind, pushed, my_parameters, frame)
           IN  /\ calls' = Append(calls, [frame |-> frame, params |-> my_parameters])
               /\ istack' = st.istack
               /\ vars_defs' = st.defs
               /\ st_err' = st.err
               /\ first_acc' = st.first
               /\ last_has' = st.last_has
    /\ UNCHANGED <<tracer_kind, raising>>
    /\ UNCHANGED notTracer

\* traceit on a 'line' event: the locals of the innermost traced frame
LineEvent ==
    /\ st_err = "none"
    /\ calls # <<>>
    /\ \E var \in TracedNames, value \in Objects :
           LET st == UpdateAll(tracer_kind, TracerState, << <<var, value>> >>,
                               calls[Len(calls)].frame)
           IN  /\ vars_defs' = st.defs
               /\ st_err' = st.err
               /\ first_acc' = st.first
               /\ last_has' = st.last_has
    /\ raising' = FALSE
    /\ UNCHANGED <<tracer_kind, calls, istack>>
    /\ UNCHANGED notTracer

\* traceit on an 'exception' event: nothing is recorded
ExceptionEvent ==
    /\ st_err = "none"
    /\ calls # <<>>
    /\ ~raising
    /\ raising' = TRUE
    /\ UNCHANGED <<tracer_kind, calls, istack, vars_defs, st_err, first_acc, last_has>>
    /\ UNCHANGED notTracer

\* traceit on a 'return' event, also of a frame an exception leaves
ReturnEvent ==
    /\ st_err = "none"
    /\ calls # <<>>
    /\ IF istack = <<>>
       THEN st_err' = "IndexError" /\ UNCHANGED istack
       ELSE istack' = SubSeq(istack, 1, Len(istack) - 1) /\ UNCHANGED st_err
    /\ calls' = SubSeq(calls, 1, Len(calls) - 1)
    /\ raising' = (raising /\ Len(calls) > 1)
    /\ last_has' = NoHas
    /\ UNCHANGED <<tracer_kind, vars_defs, first_acc>>
    /\ UNCHANGED notTracer

\* the frame on top of the input stack
Top(inputs) == inputs[Len(inputs)]

\* the definitions recorded besides the start symbol's
Recorded(d) == {i \in 1..Len(d) : d[i][1] # START_SYMBOL}

\* the definitions this step recorded were strings of length >= MinStackLen
\* found in a value of the frame on top of the stack
RecordedFromTop ==
    \A i \in Recorded(vars_defs') :
        ~DictHas(vars_defs, vars_defs'[i][1]) =>
            /\ IsStr(vars_defs'[i][2])
            /\ Len(Heap[vars_defs'[i][2]].text) >= MinStackLen
            /\ istack' # <<>>
            /\ \E w \in Values(Top(istack')) :
                   In(Heap[vars_defs'[i][2]].text, Heap[w].text)

\* C11 (first half): a StackTracer records a value only when it is a string
\* of length >= 2 contained in a value of the top frame's active set
RecordedFromActiveSet ==
    [][tracer_kind = "StackTracer" => RecordedFromTop]_vars

\* C11: every definition a StackTracer records was, when it was recorded, a
\* string of length >= 2 contained in a value of the top frame's active set,
\* and every recorded value is a substring of the sample
C11_RecordedValuesAreSubstringsOfSample ==
    /\ [][tracer_kind = "StackTracer" => RecordedFromTop]_vars
    /\ [](tracer_kind = "StackTracer" =>
            \A i \in Recorded(vars_defs) :
                In(Heap[vars_defs[i][2]].text, Heap[InputObj].text))

\* the value call number i was given as parameter x, 0 when it has none
ParamX(i) == DictGet(calls[i].params, <<"x">>, 0)

\* calls i and j are nested, their parameters x hold different strings of
\* length >= MinStackLen, both in the active set of their frames
NestedSameName(i, j) ==
    /\ i < j
    /\ ParamX(i) # 0 /\ ParamX(j) # 0
    /\ Heap[ParamX(i)].text # Heap[ParamX(j)].text
    /\ Len(Heap[ParamX(i)].text) >= MinStackLen
    /\ Len(Heap[ParamX(j)].text) >= MinStackLen
    /\ ParamX(i) \in Values(istack[i])
    /\ ParamX(j) \in Values(istack[j])

\* C12: when two nested calls of a StackTracer's trace have a parameter x
\* bound to different values derived from the sample, each value is recorded
\* under the qualified name of its call and the two names give two
\* different nonterminals
C12_NestedParametersKeptApart ==
    (tracer_kind = "StackTracer" /\ st_err = "none" /\ Len(istack) = Len(calls)) =>
        \A i, j \in 1..Len(calls) :
            NestedSameName(i, j) =>
                LET qi == varname(<<"x">>, calls[i].frame)
                    qj == varname(<<"x">>, calls[j].frame)
                IN  /\ DictGet(vars_defs, qi, 0) = ParamX(i)
                    /\ DictGet(vars_defs, qj, 0) = ParamX(j)
                    /\ nonterminal(qi) # nonterminal(qj)

RECURSIVE ParentChain(_)
\* a string and the strings it was taken from
ParentChain(v) == IF v = 0 THEN {} ELSE {v} \cup ParentChain(Heap[v].parent)

\* val or one of the strings on its parent chain is one of the active values
SameOrigin(val, active) == ParentChain(val) \cap active # {}

\* C13: a TaintedTracer accepts a value as belonging to the active set exactly
\* when it is a tstr and it, or a string on its parent chain, is the same
\* object as a value of the top frame; a string equal to or contained in an
\* active value but of another origin is not accepted
C13_AcceptedByOriginOnly ==
    (tracer_kind = "TaintedTracer" /\ istack # <<>>) =>
        /\ \A v \in Objects :
               (IsTraced(tracer_kind, v) /\ has(tracer_kind, istack, v))
                   <=> (IsTstr(v) /\ SameOrigin(v, Values(Top(istack))))
        /\ last_has.val # 0 =>
               last_has.result = SameOrigin(last_has.val, Values(Top(istack)))

\* the tracer tested a tstr that is textually contained in an active value but
\* was not taken from one, and did not accept it
C13_Witness ==
    /\ tracer_kind = "TaintedTracer"
    /\ istack # <<>>
    /\ last_has.val # 0
    /\ ~last_has.result
    /\ \E w \in Values(Top(istack)) : In(Heap[last_has.val].text, Heap[w].text)
    /\ ~SameOrigin(last_has.val, Values(Top(istack)))

\* the frame call number i has to have on the input stack: its string
\* parameters, for a nested call those contained in a value of the frame below
FrameOf(i) ==
    SelectSeq(calls[i].params, LAMBDA e :
        /\ IsStr(e[2])
        /\ (i = 1 \/ \E w \in Values(istack[i - 1]) :
                         In(Heap[e[2]].text, Heap[w].text)))

\* C15: the input stack of a StackTracer mirrors the traced calls that have
\* not returned: one frame per call, holding the call's string parameters
\* that are contained in a value of the caller's frame (all of them for the
\* outermost call); a return, also one an exception causes, pops the frame of
\* the returning call only; no test or pop is made on an empty stack and the
\* stack is empty when the outermost call has returned
C15_StackMirrorsCalls ==
    tracer_kind = "StackTracer" =>
        /\ st_err = "none"
        /\ Len(istack) = Len(calls)
        /\ \A i \in 1..Len(calls) : i <= Len(istack) => istack[i] = FrameOf(i)
        /\ calls = <<>> => istack = <<>>

\* an exception made a nested call return: its frame is popped and the
\* caller's frame is on top of the stack again
C15_Witness ==
    /\ tracer_kind = "StackTracer"
    /\ raising
    /\ last_has = NoHas
    /\ Len(calls) = 1
    /\ Len(istack) = 1
    /\ istack[1] = calls[1].params
    /\ Len(istack[1]) = 2

\* C18: the definitions of a StackTracer and of a TaintedTracer are written
\* once: the start symbol's entry is the sample, every other entry is the
\* first value update_vars accepted for its qualified name, and no event
\* changes or removes an entry
C18_DefinitionsWrittenOnce ==
    /\ [](tracer_kind # "idle" =>
             /\ vars_defs # <<>>
             /\ vars_defs[1] = <<START_SYMBOL, InputObj>>
             /\ Heap[InputObj].text = StackSample
             /\ Tail(vars_defs) = first_acc)
    /\ [][\A i \in 1..Len(vars_defs) :
             i <= Len(vars_defs') /\ vars_defs'[i] = vars_defs[i]]_vars

\* a TaintedTracer accepted, for the local x of the innermost call, a value
\* other than the one recorded for it, and the recorded one is still there
C18_Witness ==
    /\ tracer_kind = "TaintedTracer"
    /\ calls # <<>>
    /\ last_has.val \in {3, 4}
    /\ last_has.result
    /\ LET q == varname(<<"x">>, calls[Len(calls)].frame)
       IN  /\ DictHas(vars_defs, q)
           /\ DictGet(vars_defs, q, 0) # last_has.val
           /\ DictGet(first_acc, q, 0) = DictGet(vars_defs, q, 0)

(***************************************************************************)
(* merge_grammars and get_merged_grammar                                   *)
(***************************************************************************)

\* alternatives of a nonterminal of a grammar that is merged
MaxAlts == 1

\* traces get_merged_grammar is given
MaxTraces == 2

\* list(set(a) | set(b)): the elements of both lists, each once (their order
\* in the list depends on the hashes of the strings; nothing reads it)
UnionList(a, b) == SetToSeq(Range(a) \cup Range(b))

RECURSIVE MergeKeys_concat(_, _, _, _)
\* the loop appending g2's alternatives to g1's without going through sets
MergeKeys_concat(keys, a, b, merged) ==
    IF keys = <<>> THEN merged
    ELSE MergeKeys_concat(Tail(keys), a, b,
             DictSet(merged, keys[1],
                     DictGet(a, keys[1], <<>>) \o DictGet(b, keys[1], <<>>)))

RECURSIVE MergeKeys_left(_, _, _, _)
\* the loop keeping g1's alternatives for a nonterminal both grammars have
MergeKeys_left(keys, a, b, merged) ==
    IF keys = <<>> THEN merged
    ELSE MergeKeys_left(Tail(keys), a, b,
             DictSet(merged, keys[1],
                     IF DictHas(a, keys[1])
                     THEN UnionList(DictGet(a, keys[1], <<>>), <<>>)
                     ELSE UnionList(DictGet(b, keys[1], <<>>), <<>>)))

RECURSIVE MergeKeys(_, _, _, _)
\* for key in list(g1.keys()) + list(g2.keys())
MergeKeys(keys, a, b, merged) ==
    IF keys = <<>> THEN merged
    ELSE MergeKeys(Tail(keys), a, b,
             DictSet(merged, keys[1],
                     UnionList(DictGet(a, keys[1], <<>>), DictGet(b, keys[1], <<>>))))

KeyList(g) == [i \in 1..Len(g) |-> g[i][1]]

merge_grammars(a, b) == MergeKeys(KeyList(a) \o KeyList(b), a, b, <<>>)

RECURSIVE MergeAll(_, _)
\* the loop of get_merged_grammar over the grammars get_grammar returned
MergeAll(grammars, merged) ==
    IF grammars = <<>> THEN merged
    ELSE MergeAll(Tail(grammars), merge_grammars(merged, grammars[1]))

\* the nonterminals and alternatives of the grammars merged
AlgKeys == <<START_SYMBOL, <<"<", "p", ">">> >>

AlgAlts == { <<"a", "b">>, <<"<", "p", ">", "b">> }

AlgLists == UNION {[1..n -> AlgAlts] : n \in 0..MaxAlts}

\* the grammars over AlgKeys: each nonterminal is absent or has a list of at
\* most MaxAlts alternatives
AlgGrammars ==
    LET in_order(P) == SelectSeq([i \in 1..Len(AlgKeys) |-> i], LAMBDA i : i \in P)
    IN  UNION { { [j \in 1..Len(in_order(P)) |->
                     <<AlgKeys[in_order(P)[j]], r[in_order(P)[j]]>>]
                  : r \in [P -> AlgLists] }
                : P \in SUBSET (1..Len(AlgKeys)) }

NoResults ==
    [m12 |-> <<>>, m21 |-> <<>>, m11 |-> <<>>, m23 |-> <<>>,
     m12_3 |-> <<>>, m1_23 |-> <<>>, f123 |-> <<>>, f312 |-> <<>>]

AlgebraInit ==
    /\ G1 \in AlgGrammars
    /\ G2 \in AlgGrammars
    /\ G3 \in AlgGrammars
    /\ res = NoResults
    /\ apc = "inputs"

\* merge_grammars is called on pairs of the grammars
MergePairs ==
    /\ apc = "inputs"
    /\ res' = [res EXCEPT !.m12 = merge_grammars(G1, G2),
                          !.m21 = merge_grammars(G2, G1),
                          !.m11 = merge_grammars(G1, G1),
                          !.m23 = merge_grammars(G2, G3)]
    /\ apc' = "pairs"
    /\ UNCHANGED <<G1, G2, G3>>
    /\ UNCHANGED notAlgebra

\* merge_grammars is called on the results, and the loop of
\* get_merged_grammar is run over the three grammars in two orders
MergeNested ==
    /\ apc = "pairs"
    /\ res' = [res EXCEPT !.m12_3 = merge_grammars(res.m12, G3),
                          !.m1_23 = merge_grammars(G1, res.m23),
                          !.f123 = MergeAll(<<G1, G2, G3>>, <<>>),
                          !.f312 = MergeAll(<<G3, G1, G2>>, <<>>)]
    /\ apc' = "nested"
    /\ UNCHANGED <<G1, G2, G3>>
    /\ UNCHANGED notAlgebra

\* a grammar as a map from nonterminal to set of alternatives
SetMap(g) == [k \in DictKeys(g) |-> Range(DictGet(g, k, <<>>))]

NoDuplicates(s) == \A i, j \in 1..Len(s) : i # j => s[i] # s[j]

\* r has exactly the nonterminals of a and b, each once, and for each the
\* alternatives of a and of b, each once
IsUnionOf(r, a, b) ==
    /\ DictKeys(r) = DictKeys(a) \cup DictKeys(b)
    /\ NoDuplicates(KeyList(r))
    /\ \A k \in DictKeys(r) :
           /\ Range(DictGet(r, k, <<>>)) =
                  Range(DictGet(a, k, <<>>)) \cup Range(DictGet(b, k, <<>>))
           /\ NoDuplicates(DictGet(r, k, <<>>))

\* C5: merge_grammars(g1, g2) has exactly the nonterminals of g1 and g2 and,
\* for each, exactly the alternatives of g1 and of g2, none twice
C5_MergeIsUnion ==
    /\ apc # "inputs" =>
           /\ IsUnionOf(res.m12, G1, G2)
           /\ IsUnionOf(res.m21, G2, G1)
           /\ IsUnionOf(res.m11, G1, G1)
           /\ IsUnionOf(res.m23, G2, G3)
    /\ apc = "nested" =>
           /\ IsUnionOf(res.m12_3, res.m12, G3)
           /\ IsUnionOf(res.m1_23, G1, res.m23)

\* C5 witness: two grammars that share one alternative of a nonterminal and
\* differ in another have been merged
C5_Witness ==
    /\ apc = "nested"
    /\ \E k \in DictKeys(G1) \cap DictKeys(res.m23) :
           /\ Range(DictGet(G1, k, <<>>)) \cap Range(DictGet(res.m23, k, <<>>)) # {}
           /\ Range(DictGet(res.m23, k, <<>>)) \ Range(DictGet(G1, k, <<>>)) # {}
           /\ Len(DictGet(res.m1_23, k, <<>>)) = 2
    /\ DictKeys(G2) \ DictKeys(G1) # {}

\* C6: as maps from nonterminal to set of alternatives, merge(G, G) = G,
\* merge(G1, G2) = merge(G2, G1), merge(merge(G1, G2), G3) =
\* merge(G1, merge(G2, G3)), and the loop of get_merged_grammar gives the same
\* grammar for the traces in another order
C6_MergeAlgebra ==
    /\ apc # "inputs" =>
           /\ SetMap(res.m11) = SetMap(G1)
           /\ SetMap(res.m12) = SetMap(res.m21)
    /\ apc = "nested" =>
           /\ SetMap(res.m12_3) = SetMap(res.m1_23)
           /\ SetMap(res.f123) = SetMap(res.f312)
           /\ SetMap(res.f123) = SetMap(res.m12_3)

\* C6 witness: three grammars with pairwise different rules for a nonterminal
\* that two of them share have been merged in both groupings
C6_Witness ==
    /\ apc = "nested"
    /\ SetMap(G1) # SetMap(G2)
    /\ SetMap(G2) # SetMap(G3)
    /\ DictKeys(G1) \cap DictKeys(G2) # {}
    /\ SetMap(res.m12) # SetMap(G1)
    /\ SetMap(res.m12_3) # SetMap(res.m12)

(***************************************************************************)
(* get_merged_grammar: get_grammar on every trace, merged one after another *)
(***************************************************************************)

\* names of the locals of the frames traced for get_merged_grammar
TraceNames == { <<"p">>, <<"P">> }

\* what Tracer.traceit can have recorded on sample s: at most two locals,
\* each holding a piece of s longer than MinLen
TracesOf(s) ==
    LET pieces == Substrings(s, MinLen + 1, MaxValLen)
    IN  {<<>>}
        \cup {<< <<n, v>> >> : <<n, v>> \in TraceNames \X pieces}
        \cup {<< <<n1, v1>>, <<n2, v2>> >> : <<n1, v1, n2, v2>> \in
                {x \in TraceNames \X pieces \X TraceNames \X pieces : x[1] # x[3]}}

\* get_merged_grammar is called: merged_grammar = {}
MergedInit ==
    /\ merged_grammar = <<>>
    /\ ntraces = 0
    /\ mg_pc = "loop"
    /\ merged_from = {}

\* one iteration of for trace in traces: get_grammar(trace), then the merge
MergeNextTrace ==
    /\ mg_pc = "loop"
    /\ ntraces < MaxTraces
    /\ \E s \in Samples : \E values \in TracesOf(s) :
           LET r == get_grammar(values, s)
           IN  IF r.raised
               THEN /\ mg_pc' = "raised"
                    /\ UNCHANGED <<merged_grammar, merged_from>>
               ELSE /\ merged_grammar' = merge_grammars(merged_grammar, r.g)
                    /\ merged_from' = merged_from \cup {[input |-> s, grammar |-> r.g]}
                    /\ mg_pc' = "loop"
    /\ ntraces' = ntraces + 1
    /\ UNCHANGED notMerged

\* the traces are exhausted: return merged_grammar
ReturnMerged ==
    /\ mg_pc = "loop"
    /\ mg_pc' = "returned"
    /\ UNCHANGED <<merged_grammar, ntraces, merged_from>>
    /\ UNCHANGED notMerged

\* every nonterminal of g is in merged with all of g's alternatives
Contains(merged, g) ==
    \A k \in DictKeys(g) :
        /\ DictHas(merged, k)
        /\ Range(DictGet(g, k, <<>>)) \subseteq Range(DictGet(merged, k, <<>>))

\* C7 (first half): the grammar get_merged_grammar returns contains every
\* trace's grammar, nonterminal by nonterminal and alternative by alternative
MergedContainsEveryTraceGrammar ==
    mg_pc = "returned" =>
        \A h \in merged_from : Contains(merged_grammar, h.grammar)

\* C7: the grammar get_merged_grammar returns contains every trace's grammar
\* with all its alternatives, and every sample is derivable from the start
\* symbol with the productions of its own trace's grammar
C7_MergedGrammarDerivesEverySample ==
    mg_pc = "returned" =>
        \A h \in merged_from :
            /\ Contains(merged_grammar, h.grammar)
            /\ Derives(h.grammar, h.input)

(***************************************************************************)
(* Specifications                                                          *)
(***************************************************************************)

HookIdle ==
    /\ hook0 = NoHook
    /\ trace_hook = NoHook
    /\ scopes = <<>>
    /\ exc = "none"
    /\ ntracers = 0
    /\ lastexit = NoExit

MinerIdle ==
    /\ inputstr = <<>>
    /\ the_values = <<>>
    /\ grammar = <<>>
    /\ new_rules = <<>>
    /\ pc = "idle"
    /\ obs0 = <<>>
    /\ found = {}
    /\ ruled = {}
    /\ passes = 0

StackGrammarIdle ==
    /\ stack_input = <<>>
    /\ defs = <<>>
    /\ my_grammar = <<>>
    /\ sg_i = 0
    /\ sg_pc = "idle"

AlgebraIdle ==
    /\ G1 = <<>>
    /\ G2 = <<>>
    /\ G3 = <<>>
    /\ res = NoResults
    /\ apc = "idle"

MergedIdle ==
    /\ merged_grammar = <<>>
    /\ ntraces = 0
    /\ mg_pc = "idle"
    /\ merged_from = {}

TraceIdle ==
    /\ t_input = <<>>
    /\ t_values = <<>>
    /\ t_last = <<>>

TracerIdle ==
    /\ tracer_kind = "idle"
    /\ calls = <<>>
    /\ istack = <<>>
    /\ vars_defs = <<>>
    /\ raising = FALSE
    /\ st_err = "none"
    /\ first_acc = <<>>
    /\ last_has = NoHas

TracersIdle == TraceIdle /\ TracerIdle

OthersIdle == AlgebraIdle /\ MergedIdle /\ TracersIdle

\* the simple miner: trace events, then get_grammar
Init == MinerInit /\ HookIdle /\ StackGrammarIdle /\ OthersIdle

Next == TraceIt \/ CallGetGrammar \/ ScanPass \/ Break \/ AddNewRules

Spec == Init /\ [][Next]_vars

\* get_grammar on what a Tracer recorded on the long sample
RulesSpecInit == RulesInit /\ HookIdle /\ StackGrammarIdle /\ OthersIdle

RulesNext == CallGetGrammar \/ ScanPass \/ Break \/ AddNewRules

SpecRules == RulesSpecInit /\ [][RulesNext]_vars

\* the with-blocks around traced calls
HookSpecInit == HookInit /\ MinerIdle /\ StackGrammarIdle /\ OthersIdle

HookNext == Enter \/ TargetThrows \/ Exit \/ Catch

SpecHook == HookSpecInit /\ [][HookNext]_vars

\* the stack-scoped get_grammar
StackGrammarSpecInit == StackGrammarInit /\ MinerIdle /\ HookIdle /\ OthersIdle

StackGrammarNext == StackStep \/ StackReturn

SpecStackGrammar == StackGrammarSpecInit /\ [][StackGrammarNext]_vars

\* merge_grammars on three grammars
AlgebraSpecInit ==
    AlgebraInit /\ MinerIdle /\ HookIdle /\ StackGrammarIdle /\ MergedIdle /\ TracersIdle

AlgebraNext == MergePairs \/ MergeNested

SpecAlgebra == AlgebraSpecInit /\ [][AlgebraNext]_vars

\* get_merged_grammar over several traces
MergedSpecInit ==
    MergedInit /\ MinerIdle /\ HookIdle /\ StackGrammarIdle /\ AlgebraIdle /\ TracersIdle

MergedNext == MergeNextTrace \/ ReturnMerged

SpecMerged == MergedSpecInit /\ [][MergedNext]_vars

\* the events of a call traced by a StackTracer or a TaintedTracer
TracerSpecInit ==
    TracerInit /\ MinerIdle /\ HookIdle /\ StackGrammarIdle /\ AlgebraIdle
        /\ MergedIdle /\ TraceIdle

TracerNext == CallEvent \/ LineEvent \/ ExceptionEvent \/ ReturnEvent

SpecTracer == TracerSpecInit /\ [][TracerNext]_vars

\* Tracer.traceit on the events of a traced call
TraceSpecInit ==
    TraceInit /\ MinerIdle /\ HookIdle /\ StackGrammarIdle /\ AlgebraIdle
        /\ MergedIdle /\ TracerIdle

TraceNext == TraceEvent

SpecTrace == TraceSpecInit /\ [][TraceNext]_vars

=============================================================================
